---- MODULE Spec2Model ----
(***************************************************************************)
(* Field option resolution of darling's core (core/src/options/field.rs). *)
(* A Field is created from a syn::Field, its directives are parsed one by *)
(* one, container settings are inherited, and the resolved Field is        *)
(* projected into a codegen view.                                          *)
(*                                                                         *)
(* Strings are sequences of one-character strings, so that a rename rule   *)
(* is computed on the characters of the name.                              *)
(***************************************************************************)
EXTENDS Integers, Sequences, FiniteSets, TLC

VARIABLES
    f,            \* the syn::Field handed to from_field: [ident, ty, attrs]
    parent,       \* Option<&Container> handed to from_field
    self,         \* the Field under construction / returned
    idx,          \* position of parse_attributes in f.attrs (1-based)
    pc,           \* "parse" | "done" (Ok returned) | "failed" (Err returned)
    error,        \* the Error of an Err result
    merges,       \* number of with_inherited calls made by this from_field
    view,         \* the last codegen::Field produced by as_codegen_field
    projections   \* number of as_codegen_field calls made so far

vars == <<f, parent, self, idx, pc, error, merges, view, projections>>

\* ---------------------------------------------------------------- bounds

\* Longest directive list of a field.
MaxAttrs == 2

\* Number of projections taken of one resolved Field.
MaxProjections == 2

\* ---------------------------------------------------------------- values

None == [some |-> FALSE]

Some(v) == [some |-> TRUE, val |-> v]

Ok(v) == [ok |-> TRUE, val |-> v]

Err(e) == [ok |-> FALSE, err |-> e]

\* DefaultExpression::{Explicit(path), Inherit, Trait}
Explicit(path) == [tag |-> "Explicit", path |-> path]

Inherit == [tag |-> "Inherit"]

Trait == [tag |-> "Trait"]

\* syn::Ident, and its text (Ident::as_ref)
Ident(s) == [sym |-> s]

Ident_as_ref(id) == id.sym

\* syn::Path, held by its text
Path(s) == [path |-> s]

\* FROM_META_ITEM: the parser used when a field has no `with`.
FROM_META_ITEM == Path(<<"::darling::FromMetaItem::from_meta_item">>)

\* Errors. unknown_field carries the offending directive name.
NoError == [kind |-> "None", name |-> ""]

Error_unknown_field(n) == [kind |-> "UnknownField", name |-> n]

Error_value_shape(n) == [kind |-> "ValueShapeMismatch", name |-> n]

\* ---------------------------------------------------------------- inputs

\* Field names of the schema: identifiers, never empty.
TargetNames == { <<"a", "_", "b">>, <<"c">> }

\* String payloads of a directive, the empty string included.
StrValues == { <<>>, <<"c">> }

\* A directive value: a bare word (`skip`), a boolean or a string literal.
MetaValues ==
    { [kind |-> "word"] }
    \cup { [kind |-> "bool", b |-> FALSE] }
    \cup { [kind |-> "str", s |-> s] : s \in StrValues }

Vocabulary == { "rename", "default", "with", "skip" }

DirectiveNames == Vocabulary \cup { "frobnicate", "bogus" }

MetaItems == { [name |-> n, value |-> v] : n \in DirectiveNames, v \in MetaValues }

RECURSIVE SeqsUpTo(_, _)
SeqsUpTo(S, n) ==
    IF n = 0 THEN { <<>> }
    ELSE LET shorter == SeqsUpTo(S, n - 1)
         IN  shorter \cup { Append(s, x) : s \in { t \in shorter : Len(t) = n - 1 }, x \in S }

\* Container rename rules, by name.
RenameRules == { "None", "PascalCase" }

\* Container: rename_rule and an optional default of which only presence matters.
Containers == { [rename_rule |-> r, default |-> d] : r \in RenameRules, d \in { None, Some(Trait) } }

\* ---------------------------------------------------------------- rename rule

Upper(c) == IF c = "a" THEN "A" ELSE IF c = "b" THEN "B" ELSE IF c = "c" THEN "C" ELSE c

\* PascalCase: drop each '_' and capitalize the character that follows it
\* (and the first one).
RECURSIVE Pascal(_, _)
Pascal(s, capitalize) ==
    IF s = <<>> THEN <<>>
    ELSE IF Head(s) = "_" THEN Pascal(Tail(s), TRUE)
    ELSE IF capitalize THEN <<Upper(Head(s))>> \o Pascal(Tail(s), FALSE)
    ELSE <<Head(s)>> \o Pascal(Tail(s), FALSE)

\* RenameRule::apply_to_field: a pure function name -> name.
RenameRule_apply_to_field(rule, ident) ==
    IF rule = "PascalCase" THEN Pascal(Ident_as_ref(ident), TRUE)
    ELSE Ident_as_ref(ident)

\* ---------------------------------------------------------------- FromMetaItem

\* String: a string literal gives its text; any other shape is a mismatch.
String_from_meta_item(mi) ==
    IF mi.value.kind = "str" THEN Ok(mi.value.s)
    ELSE Err(Error_value_shape(mi.name))

\* bool: a bare word is true, a boolean literal is itself, a string must
\* spell a boolean.
bool_from_meta_item(mi) ==
    CASE mi.value.kind = "word" -> Ok(TRUE)
      [] mi.value.kind = "bool" -> Ok(mi.value.b)
      [] mi.value.kind = "str" ->
            IF mi.value.s = <<"t", "r", "u", "e">> THEN Ok(TRUE)
            ELSE IF mi.value.s = <<"f", "a", "l", "s", "e">> THEN Ok(FALSE)
            ELSE Err(Error_value_shape(mi.name))

\* syn::Path: parsed from a string literal; the empty string is no path.
Path_from_meta_item(mi) ==
    IF mi.value.kind = "str" /\ mi.value.s # <<>> THEN Ok(Path(mi.value.s))
    ELSE Err(Error_value_shape(mi.name))

\* DefaultExpression: a bare word is Trait, a string is the Explicit path.
DefaultExpression_from_meta_item(mi) ==
    IF mi.value.kind = "word" THEN Ok(Trait)
    ELSE LET p == Path_from_meta_item(mi)
         IN  IF p.ok THEN Ok(Explicit(p.val)) ELSE p

\* Option<T>: Some of T's conversion, the error passed on.
Option_from_meta_item(r) == IF r.ok THEN Ok(Some(r.val)) ELSE r

\* ---------------------------------------------------------------- Field

\* Field::new with the default already deferred to the container.
Field_new_inherit(target_name, ty) ==
    [ target_name |-> target_name,
      ty          |-> ty,
      attr_name   |-> None,
      default     |-> Some(Inherit),
      with        |-> None,
      skip        |-> FALSE ]

Field_new(target_name, ty) ==
    [ target_name |-> target_name,
      ty          |-> ty,
      attr_name   |-> None,
      default     |-> None,
      with        |-> None,
      skip        |-> FALSE ]

\* parse_nested that skips a directive it does not know.
parse_nested_ignore_unknown(this, mi) ==
    CASE mi.name = "rename" ->
            LET r == Option_from_meta_item(String_from_meta_item(mi))
            IN  IF r.ok THEN Ok([this EXCEPT !.attr_name = r.val]) ELSE r
      [] mi.name = "default" ->
            LET r == Option_from_meta_item(DefaultExpression_from_meta_item(mi))
            IN  IF r.ok THEN Ok([this EXCEPT !.default = r.val]) ELSE r
      [] mi.name = "with" ->
            LET r == Path_from_meta_item(mi)
            IN  IF r.ok THEN Ok([this EXCEPT !.with = Some(r.val)]) ELSE r
      [] mi.name = "skip" ->
            LET r == bool_from_meta_item(mi)
            IN  IF r.ok THEN Ok([this EXCEPT !.skip = r.val]) ELSE r
      [] OTHER -> Ok(this)

\* parse_nested: one directive applied to the field, or an error.
parse_nested(this, mi) ==
    CASE mi.name = "rename" ->
            LET r == Option_from_meta_item(String_from_meta_item(mi))
            IN  IF r.ok THEN Ok([this EXCEPT !.attr_name = r.val]) ELSE r
      [] mi.name = "default" ->
            LET r == Option_from_meta_item(DefaultExpression_from_meta_item(mi))
            IN  IF r.ok THEN Ok([this EXCEPT !.default = r.val]) ELSE r
      [] mi.name = "with" ->
            LET r == Path_from_meta_item(mi)
            IN  IF r.ok THEN Ok([this EXCEPT !.with = Some(r.val)]) ELSE r
      [] mi.name = "skip" ->
            LET r == bool_from_meta_item(mi)
            IN  IF r.ok THEN Ok([this EXCEPT !.skip = r.val]) ELSE r
      [] OTHER -> Err(Error_unknown_field(mi.name))

\* with_inherited that applies the rename rule over an explicit rename.
with_inherited_always_rename(this, container) ==
    LET renamed ==
            [this EXCEPT !.attr_name =
                Some(RenameRule_apply_to_field(container.rename_rule, this.target_name))]
    IN  IF ~renamed.default.some /\ container.default.some
        THEN [renamed EXCEPT !.default = Some(Inherit)]
        ELSE renamed

\* with_inherited that names the field after target_name, the rule left out.
with_inherited_no_rule(this, container) ==
    LET renamed ==
            IF ~this.attr_name.some
            THEN [this EXCEPT !.attr_name = Some(Ident_as_ref(this.target_name))]
            ELSE this
    IN  IF ~renamed.default.some /\ container.default.some
        THEN [renamed EXCEPT !.default = Some(Inherit)]
        ELSE renamed

\* with_inherited that does not look at the container's default.
with_inherited_any_parent(this, container) ==
    LET renamed ==
            IF ~this.attr_name.some
            THEN [this EXCEPT !.attr_name =
                     Some(RenameRule_apply_to_field(container.rename_rule, this.target_name))]
            ELSE this
    IN  IF ~renamed.default.some
        THEN [renamed EXCEPT !.default = Some(Inherit)]
        ELSE renamed

\* with_inherited that does not look at the field's own default.
with_inherited_overwrite_default(this, container) ==
    LET renamed ==
            IF ~this.attr_name.some
            THEN [this EXCEPT !.attr_name =
                     Some(RenameRule_apply_to_field(container.rename_rule, this.target_name))]
            ELSE this
    IN  IF container.default.some
        THEN [renamed EXCEPT !.default = Some(Inherit)]
        ELSE renamed

\* with_inherited: container settings applied where the field set none.
with_inherited(this, container) ==
    LET renamed ==
            IF ~this.attr_name.some
            THEN [this EXCEPT !.attr_name =
                     Some(RenameRule_apply_to_field(container.rename_rule, this.target_name))]
            ELSE this
    IN  IF ~renamed.default.some /\ container.default.some
        THEN [renamed EXCEPT !.default = Some(Inherit)]
        ELSE renamed

as_codegen_default(this) ==
    IF ~this.default.some THEN None
    ELSE CASE this.default.val.tag = "Explicit" -> Some(Explicit(this.default.val.path))
           [] this.default.val.tag = "Inherit" -> Some([tag |-> "Inherit", name |-> this.target_name])
           [] this.default.val.tag = "Trait" -> Some(Trait)

\* as_codegen_field that always names the field after target_name.
as_codegen_field_target_only(this) ==
    [ name_in_struct     |-> this.target_name,
      name_in_attr       |-> Ident_as_ref(this.target_name),
      ty                 |-> this.ty,
      default_expression |-> as_codegen_default(this),
      with_path          |-> IF this.with.some THEN this.with.val ELSE FROM_META_ITEM,
      skip               |-> this.skip ]

as_codegen_field(this) ==
    [ name_in_struct     |-> this.target_name,
      name_in_attr       |-> IF this.attr_name.some THEN this.attr_name.val
                             ELSE Ident_as_ref(this.target_name),
      ty                 |-> this.ty,
      default_expression |-> as_codegen_default(this),
      with_path          |-> IF this.with.some THEN this.with.val ELSE FROM_META_ITEM,
      skip               |-> this.skip ]

NoView == [ name_in_struct |-> Ident(<<>>), name_in_attr |-> <<>>, ty |-> "",
            default_expression |-> None, with_path |-> FROM_META_ITEM, skip |-> FALSE ]

\* ---------------------------------------------------------------- from_field

\* from_field up to the first directive: the Field is Field::new of the
\* syn::Field's name and type.
Init ==
    /\ f \in { [ident |-> Ident(n), ty |-> "u32", attrs |-> a] :
                 n \in TargetNames, a \in SeqsUpTo(MetaItems, MaxAttrs) }
    /\ parent \in { None } \cup { Some(c) : c \in Containers }
    /\ self = Field_new(f.ident, f.ty)
    /\ idx = 1
    /\ pc = "parse"
    /\ error = NoError
    /\ merges = 0
    /\ view = NoView
    /\ projections = 0

\* The merge let in with the last directive still to parse.
ParseCompleteEarly == idx >= Len(f.attrs)

\* Every directive of the field has been parsed without error.
ParseComplete == idx > Len(f.attrs)

\* parse_attributes, one directive: parse_nested applied to the next
\* directive; the first error ends from_field.
ParseAttributes ==
    /\ pc = "parse"
    /\ idx <= Len(f.attrs)
    /\ LET r == parse_nested(self, f.attrs[idx])
       IN  IF r.ok
           THEN /\ self' = r.val
                /\ idx' = idx + 1
                /\ UNCHANGED <<pc, error>>
           ELSE /\ pc' = "failed"
                /\ error' = r.err
                /\ UNCHANGED <<self, idx>>
    /\ UNCHANGED <<f, parent, merges, view, projections>>

\* from_field with a container: with_inherited on the parsed Field.
FromFieldInherit ==
    /\ pc = "parse"
    /\ ParseComplete
    /\ parent.some
    /\ self' = with_inherited(self, parent.val)
    /\ merges' = merges + 1
    /\ pc' = "done"
    /\ UNCHANGED <<f, parent, idx, error, view, projections>>

\* from_field without a container: the parsed Field is returned.
FromFieldBase ==
    /\ pc = "parse"
    /\ ParseComplete
    /\ ~parent.some
    /\ pc' = "done"
    /\ UNCHANGED <<f, parent, self, idx, error, merges, view, projections>>

\* as_codegen_field that stores the name it resolved back into the Field.
AsCodegenFieldCaching ==
    /\ pc = "done"
    /\ projections < MaxProjections
    /\ view' = as_codegen_field(self)
    /\ self' = [self EXCEPT !.attr_name = Some(view'.name_in_attr)]
    /\ projections' = projections + 1
    /\ UNCHANGED <<f, parent, idx, pc, error, merges>>

\* as_codegen_field on the returned Field (borrowed immutably).
AsCodegenField ==
    /\ pc = "done"
    /\ projections < MaxProjections
    /\ view' = as_codegen_field(self)
    /\ projections' = projections + 1
    /\ UNCHANGED <<f, parent, self, idx, pc, error, merges>>

Next ==
    \/ ParseAttributes
    \/ FromFieldInherit
    \/ FromFieldBase
    \/ AsCodegenField

Spec == Init /\ [][Next]_vars

\* ---------------------------------------------------------------- directive lists

\* Positions of the directives named n in the field's directive list.
Positions(n) == { i \in 1..Len(f.attrs) : f.attrs[i].name = n }

Has(n) == Positions(n) # {}

Max(S) == CHOOSE i \in S : \A j \in S : j <= i

Min(S) == CHOOSE i \in S : \A j \in S : i <= j

\* The last directive named n (Has(n) assumed).
Last(n) == f.attrs[Max(Positions(n))]

\* Positions of the directives whose name is outside the vocabulary.
UnknownPositions == { i \in 1..Len(f.attrs) : f.attrs[i].name \notin Vocabulary }

HasUnknown == UnknownPositions # {}

FirstUnknown == Min(UnknownPositions)

\* The value of directive i has a shape its name does not accept.
ShapeMismatch(i) ==
    LET mi == f.attrs[i]
    IN  \/ mi.name = "rename" /\ mi.value.kind # "str"
        \/ mi.name = "default" /\ ~(mi.value.kind = "word" \/ (mi.value.kind = "str" /\ mi.value.s # <<>>))
        \/ mi.name = "with" /\ ~(mi.value.kind = "str" /\ mi.value.s # <<>>)
        \/ mi.name = "skip" /\ mi.value.kind = "str"

\* from_field has returned.
Returned == pc \in { "done", "failed" }

\* ---------------------------------------------------------------- claims

\* C1: a field with a `rename` directive of value V (the last one, if
\* repeated) resolves to attr_name = Some(V), for every container and with
\* no container; the container's rename rule is not applied to it.
C1_ExplicitRenameWins ==
    (pc = "done" /\ Has("rename")) => self.attr_name = Some(Last("rename").value.s)

\* C1 witness: a renamed field resolved under a container whose rule would
\* have given another name.
C1_Witness ==
    /\ pc = "done"
    /\ Has("rename")
    /\ parent.some
    /\ merges = 1
    /\ RenameRule_apply_to_field(parent.val.rename_rule, f.ident) # Last("rename").value.s
    /\ self.attr_name = Some(<<"c">>)

\* C2: a field with no `rename` directive resolved with a container of rename
\* rule R has attr_name = Some(R(target_name)), whatever its other directives.
C2_InheritedRename ==
    (pc = "done" /\ ~Has("rename") /\ parent.some)
        => self.attr_name = Some(RenameRule_apply_to_field(parent.val.rename_rule, f.ident))

\* C2 witness: a field with other directives but no rename, whose container
\* rule turns a_b into AB.
C2_Witness ==
    /\ pc = "done"
    /\ ~Has("rename")
    /\ Len(f.attrs) >= 1
    /\ parent.some
    /\ parent.val.rename_rule = "PascalCase"
    /\ f.ident = Ident(<<"a", "_", "b">>)
    /\ self.attr_name = Some(<<"A", "B">>)

\* C3: a field with no `default` directive resolves to default = Some(Inherit)
\* when a container with a default is supplied, and to None otherwise.
C3_InheritedDefault ==
    (pc = "done" /\ ~Has("default"))
        => self.default = IF parent.some /\ parent.val.default.some THEN Some(Inherit) ELSE None

\* C3 witness: both outcomes are distinguished by the container; here the
\* container has a default and the field inherits it.
C3_Witness ==
    /\ pc = "done"
    /\ ~Has("default")
    /\ parent.some
    /\ parent.val.default.some
    /\ self.default = Some(Inherit)

\* C4: a field whose `default` directive parses to Explicit(path) or Trait keeps
\* exactly that value after from_field, also when the container has a default.
C4_ExplicitDefaultKept ==
    (pc = "done" /\ Has("default"))
        => self.default =
              IF Last("default").value.kind = "word" THEN Some(Trait)
              ELSE Some(Explicit(Path(Last("default").value.s)))

\* C4 witness: an Explicit default merged with a container that has a default.
C4_Witness ==
    /\ pc = "done"
    /\ Has("default")
    /\ parent.some
    /\ parent.val.default.some
    /\ merges = 1
    /\ self.default = Some(Explicit(Path(<<"c">>)))

\* C5 as stated: a field with a directive outside the vocabulary fails with
\* the unknown-field error of the first such directive, at that directive,
\* and without a merge.
C5_UnknownDirectiveError ==
    (Returned /\ HasUnknown)
        => /\ pc = "failed"
           /\ error = Error_unknown_field(f.attrs[FirstUnknown].name)
           /\ idx = FirstUnknown
           /\ merges = 0

\* Positions before the first unknown directive whose value has the wrong shape.
EarlierMismatches == { i \in 1..(FirstUnknown - 1) : ShapeMismatch(i) }

\* C5 amended: a field with a directive outside the vocabulary never yields a
\* Field and never reaches the merge; parsing stops no later than the first
\* unknown directive; the error is the unknown-field error of that directive
\* unless an earlier directive's value has the wrong shape, in which case
\* parsing stops there with that directive's value error.
C5_UnknownDirectiveFails ==
    HasUnknown
        => /\ pc # "done"
           /\ merges = 0
           /\ idx <= FirstUnknown
           /\ Returned =>
                IF EarlierMismatches = {}
                THEN /\ error = Error_unknown_field(f.attrs[FirstUnknown].name)
                     /\ idx = FirstUnknown
                ELSE /\ error = Error_value_shape(f.attrs[Min(EarlierMismatches)].name)
                     /\ idx = Min(EarlierMismatches)

\* C5 witness: a well-formed directive followed by an unknown one, failed at
\* the unknown one with its name, with a container waiting to be merged.
C5_Witness ==
    /\ pc = "failed"
    /\ Len(f.attrs) = 2
    /\ f.attrs[1].name = "rename"
    /\ f.attrs[2].name = "frobnicate"
    /\ parent.some
    /\ idx = 2
    /\ error = Error_unknown_field("frobnicate")
    /\ merges = 0

\* C6: the view's name_in_attr is attr_name when it is Some and the text of
\* target_name when it is None; a Field returned by from_field has attr_name
\* None only without a container and without a `rename` directive.
C6_NameInAttr ==
    /\ projections > 0 =>
          view.name_in_attr = IF self.attr_name.some THEN self.attr_name.val
                              ELSE Ident_as_ref(self.target_name)
    /\ (pc = "done" /\ ~self.attr_name.some) => (~parent.some /\ ~Has("rename"))

\* C6 witness: both branches are projected; this is the fallback one.
C6_Witness ==
    /\ projections > 0
    /\ ~self.attr_name.some
    /\ ~parent.some
    /\ view.name_in_attr = <<"a", "_", "b">>

\* C7: as_codegen_field changes no component of the Field, and a later
\* projection of the same Field equals the earlier one.
C7_ProjectionPure ==
    [][projections' # projections
          => /\ self' = self
             /\ projections > 0 => view' = view]_vars

\* C7 witness: a Field with an inherited default projected twice.
C7_Witness ==
    /\ projections = 2
    /\ self.default = Some(Inherit)
    /\ view.default_expression = Some([tag |-> "Inherit", name |-> self.target_name])

\* C8 as stated: the attr_name of a returned Field, when Some, is non-empty.
C8_AttrNameNonEmpty ==
    (pc = "done" /\ self.attr_name.some) => self.attr_name.val # <<>>

\* C9: in every state, default = Some(Inherit) only after a merge with a
\* container whose default is present.
C9_InheritOnlyFromContainer ==
    self.default = Some(Inherit)
        => /\ merges = 1
           /\ parent.some
           /\ parent.val.default.some

\* C9 witness: an Inherit default, next to the states of the same run that
\* precede the merge.
C9_Witness ==
    /\ self.default = Some(Inherit)
    /\ Len(f.attrs) = 2
    /\ pc = "done"

\* C10: with_inherited runs at most once in a from_field, only once every
\* directive is parsed without error and only with a container; no directive
\* is parsed after it; without a container the Field is returned as parsing
\* left it, attr_name and default set only by a directive.
C10_MergeOnceAfterParsing ==
    [][/\ merges' # merges
            => /\ merges = 0
               /\ merges' = 1
               /\ pc = "parse"
               /\ idx > Len(f.attrs)
               /\ error = NoError
               /\ parent.some
               /\ pc' = "done"
       /\ merges >= 1 => (idx' = idx /\ pc' # "parse")
       /\ (pc = "parse" /\ pc' = "done" /\ ~parent.some)
            => /\ self' = self
               /\ merges' = merges
               /\ self'.attr_name.some <=> Has("rename")
               /\ self'.default.some <=> Has("default")]_vars

\* C10 witness: two directives parsed, then one merge.
C10_Witness ==
    /\ pc = "done"
    /\ merges = 1
    /\ Len(f.attrs) = 2
    /\ idx = 3

====
